---- MODULE Spec2Model ----
(***************************************************************************)
(* The session-multiplexed SSE transport of sumble-mcp-server.             *)
(*                                                                         *)
(* Two near-duplicate HTTP transports are modelled, src/src/server-http.ts *)
(* and src/unnamed/part_000.  They share the session table, the /sse       *)
(* handler and the /message handler, and differ in how a submission is     *)
(* acknowledged.  `variant` fixes which of the two is running.  A third,   *)
(* src/src/server.ts, keeps its own session table and hands the streams    *)
(* and the submissions to the MCP SDK; its table and its session check     *)
(* are modelled under SpecExpress.  The tool layer of the servers (the      *)
(* tool list, and a tool call up to its upstream request) is modelled      *)
(* under SpecTools, the stdio server src/unnamed/part_001 included;        *)
(* SpecAnyBody is Spec with clients that also post messages without an id  *)
(* and JSON that is not a JSON-RPC object.                                 *)
(*                                                                         *)
(* Node runs every handler to its first await without interruption, so     *)
(* one action is one turn of the event loop: the /sse handler, a           *)
(* keep-alive tick, a close event, the arrival of a POST (the session      *)
(* check), the "end" event of its body up to the upstream call, and the    *)
(* resumption after the upstream call.                                     *)
(***************************************************************************)
EXTENDS Naturals, Integers, Sequences, FiniteSets, TLC

\* Bounds of the model: requests handled (stream opens plus submissions)
\* and keep-alive ticks.
MaxReq == 3
MaxTicks == 1

None == "none"

Variants == {"server-http.ts", "part_000"}

\* Names every object inherits from Object.prototype: `transports` of
\* server.ts is an object literal, and transports[name] is then a function.
InheritedKeys == {"constructor"}

\* Math.random().toString(36).substring(2, 10): a short base-36 string, the
\* empty string when Math.random() returns 0, and not necessarily fresh.
Ids == {"", "k1", "k2"}

\* The scheme of a connection accepted by http.createServer.
ConnScheme == "http"
DefaultProto == "https"
DefaultHost == "sumble-mcp-server.onrender.com"

\* The headers of a GET /sse request the handler reads.
Headers ==
    [xfproto : {None, "http", "https"},
     xfhost  : {None, "proxy.example"},
     host    : {None, "localhost:10000"}]

\* The headers of a request that came through the deployment's reverse proxy.
ProxiedHeaders ==
    {h \in Headers : h.xfproto = "https" /\ h.xfhost = "proxy.example" /\ h.host # None}

DeclaredTools == {"find_organizations", "enrich_organization", "find_jobs", "find_people"}
\* The tool names the modelled clients call: a declared one, one that is
\* not, and no name at all (message.params?.name is then undefined).
ToolNames == {"find_jobs", "no_such_tool", None}

\* The servers of the repository that declare and dispatch tools: the two
\* HTTP transports, the stdio server (part_001) and the SDK server.
ToolServers == {"server-http.ts", "part_000", "part_001", "server.ts"}

\* The names in the descriptors a server answers tools/list with: the
\* literal array of the HTTP transports, TOOLS of the stdio server, the
\* server.tool registrations of server.ts.
ListedTools(v) ==
    IF v = "server.ts"
    THEN {"enrich_organization", "find_organizations", "find_people"}
    ELSE {"find_organizations", "enrich_organization", "find_jobs", "find_people"}

\* A dispatch that sends every name upstream (checked against
\* C14_UnknownTool).
CallableToolsAll(v) == DeclaredTools \cup ToolNames

\* The names a server's tools/call dispatch has a branch for: the if-chain
\* of the HTTP transports, the switch of handleToolCall, the registrations
\* of server.ts.
CallableTools(v) ==
    IF v = "server.ts"
    THEN {"enrich_organization", "find_organizations", "find_people"}
    ELSE {"find_organizations", "enrich_organization", "find_jobs", "find_people"}

Methods == {"initialize", "tools/list", "tools/call", "notifications/initialized", "ping"}
\* The `id` member of the posted JSON-RPC objects.
MsgIds == {"1"}

\* Text JSON.parse rejects, or the text `null` (reading message.method of
\* null throws): the outer catch answers.
Malformed == [method |-> "<malformed>", id |-> None, tool |-> None]

\* The bodies a client can post: a JSON-RPC object, or text JSON.parse rejects.
Bodies ==
    {[method |-> m, id |-> i, tool |-> None] : m \in Methods \ {"tools/call"}, i \in MsgIds}
    \cup {[method |-> "tools/call", id |-> i, tool |-> t] : i \in MsgIds, t \in ToolNames}
    \cup {Malformed}

VARIABLES
    variant,   \* which transport is running
    process,   \* the server process: its credential, how far it got, its exit code
    reply,     \* the last response of a route that serves no session
    clients,   \* the session table: clientId -> connection (0: no entry)
    conns,     \* the /sse connections, in the order they were opened
    subs,      \* the POST /message submissions, in the order they arrived
    ticks,     \* keep-alive ticks fired so far
    call,      \* the last tools/list or tools/call a server's tool layer handled
    prev       \* an earlier tools/call of the tool layer, kept for comparison

vars == <<variant, process, reply, clients, conns, subs, ticks, call, prev>>

ConnIds == 1..Len(conns)
SubIds == 1..Len(subs)

----------------------------------------------------------------------------
\* Frames on an event stream.

EndpointFrame(url) == [type |-> "endpoint", data |-> url]
KeepAliveFrame == [type |-> "comment", data |-> "keepalive"]
MessageFrame(env) == [type |-> "message", data |-> env]

\* `${proto}://${host}/message?sessionId=${clientId}`
messageEndpoint(h, clientId) ==
    [proto     |-> IF h.xfproto # None THEN h.xfproto ELSE DefaultProto,
     host      |-> IF h.xfhost # None THEN h.xfhost
                   ELSE IF h.host # None THEN h.host ELSE DefaultHost,
     path      |-> "/message",
     sessionId |-> clientId]

\* A stream that puts a new frame right behind the endpoint event instead of
\* at the end (checked against C10_CompletionOrder).
StreamWriteFront(cs, c, frame) ==
    IF c = 0 THEN cs
    ELSE IF cs[c].open
         THEN [cs EXCEPT ![c].frames = <<Head(@), frame>> \o Tail(@)]
         ELSE cs

\* res.write on a stream: the frame is appended while the connection is
\* open; on a connection that has closed the write is dropped.  c = 0 is
\* `client` undefined, where `client?.res.write` does nothing.
StreamWrite(cs, c, frame) ==
    IF c = 0 THEN cs
    ELSE IF cs[c].open THEN [cs EXCEPT ![c].frames = Append(@, frame)]
    ELSE cs

\* A lookup that returns the most recent connection whatever the identifier
\* (checked against C5_RouteToNamedSession).
ClientsGetLatest(sessionId) == Len(conns)

\* clients.get(sessionId)
ClientsGet(sessionId) == clients[sessionId]

\* !sessionId || !clients.has(sessionId), negated
SessionCheck(sessionId) == sessionId # "" /\ clients[sessionId] # 0

----------------------------------------------------------------------------
\* JSON-RPC envelopes.  `sub` records which submission produced the envelope.

\* The `message` member of an error: its fixed text, and the status code
\* and the detail interpolated into it.
ErrorMessage(text, status, detail) == [text |-> text, status |-> status, detail |-> detail]
NoMessage == ErrorMessage(None, None, None)

\* The `result` member: which member it carries, and the tool names of a
\* tools/list result.
InitializeResult == [member |-> "serverInfo", tools |-> {}]
ToolsListResult == [member |-> "tools", tools |-> ListedTools(variant)]
ContentResult == [member |-> "content", tools |-> {}]
NoResult == [member |-> None, tools |-> {}]

ResultEnvelope(s, id, result) ==
    [kind |-> "result", id |-> id, code |-> 0, message |-> NoMessage,
     result |-> result, sub |-> s]
ErrorEnvelope(s, id, code, message) ==
    [kind |-> "error", id |-> id, code |-> code, message |-> message,
     result |-> NoResult, sub |-> s]

\* An unknown method answered with the generic internal-error code
\* (checked against C18_MethodNotFound).
MethodNotFoundAsInternal(s, id) ==
    ErrorEnvelope(s, id, -32000, ErrorMessage("Method not found", None, None))

\* { jsonrpc, id: message.id, error: { code: -32601, message: "Method not found" } }
MethodNotFound(s, id) ==
    ErrorEnvelope(s, id, -32601, ErrorMessage("Method not found", None, None))

\* What the upstream service does with a call: a 2xx response, a non-2xx
\* response with its status and text, or no response at all (fetch, or the
\* reading of the body, rejects with a message of its own).
UpstreamOutcomes ==
    {[response |-> TRUE, ok |-> TRUE, status |-> "200", text |-> "{}"],
     [response |-> TRUE, ok |-> FALSE, status |-> "500", text |-> "upstream error text"],
     [response |-> FALSE, ok |-> FALSE, status |-> None, text |-> "fetch failed"]}

\* A sumbleRequest without the `!response.ok` test (checked against
\* C12_OutcomeEnvelope).
sumbleRequestUnchecked(o) ==
    IF ~o.response THEN [threw |-> TRUE, message |-> ErrorMessage(o.text, None, None)]
    ELSE [threw |-> FALSE, message |-> NoMessage]

\* sumbleRequest, from the outcome of its fetch: it returns the parsed
\* body, or throws Error(`Sumble API error: ${status} ${errorText}`), or
\* lets the rejection through.
sumbleRequest(o) ==
    IF ~o.response THEN [threw |-> TRUE, message |-> ErrorMessage(o.text, None, None)]
    ELSE IF ~o.ok
         THEN [threw |-> TRUE, message |-> ErrorMessage("Sumble API error", o.status, o.text)]
         ELSE [threw |-> FALSE, message |-> NoMessage]

\* The acknowledgment of a submission that produced a response:
\* server-http.ts answers 200 with a copy of the envelope, part_000 answers
\* 202 {"status":"accepted"}.
AckStatus == IF variant = "server-http.ts" THEN 200 ELSE 202
AckBody == IF variant = "server-http.ts" THEN "envelope" ELSE "accepted"

\* What is known of the session a submission names, from the connections.
SessionStateOf(sessionId) ==
    IF sessionId = "" THEN "missing"
    ELSE IF \A c \in ConnIds : conns[c].id # sessionId THEN "never"
    ELSE IF \E c \in ConnIds : conns[c].id = sessionId /\ conns[c].open THEN "open"
    ELSE "closed"

\* Logical time of the submission handlers: bodies dispatched plus handlers finished.
Clock ==
    Cardinality({s \in SubIds : subs[s].endSeq > 0})
    + Cardinality({s \in SubIds : subs[s].doneSeq > 0})

NewSub(sessionId) ==
    [sessionId |-> sessionId,
     atArrival |-> SessionStateOf(sessionId),
     accepted  |-> 0,
     pc        |-> "body",
     method    |-> None,
     id        |-> None,
     tool      |-> None,
     client    |-> 0,
     callStart |-> None,
     openAtWrite |-> FALSE,
     endSeq    |-> 0,
     doneSeq   |-> 0,
     status    |-> 0,
     body      |-> None]

----------------------------------------------------------------------------
\* The tool layer: from a tool name and its arguments to the upstream
\* request.

\* JSON values as the handlers see them.  `undefined` is an argument or a
\* member that is absent; JSON.stringify drops a member that is undefined.
Undefined == [kind |-> "undefined", s |-> "", n |-> 0, items |-> << >>]
Str(s) == [kind |-> "string", s |-> s, n |-> 0, items |-> << >>]
Num(n) == [kind |-> "number", s |-> "", n |-> n, items |-> << >>]
List(items) == [kind |-> "array", s |-> "", n |-> 0, items |-> items]

\* Truthiness: undefined, 0 and "" are falsy, every array is truthy.
Truthy(x) ==
    CASE x.kind = "undefined" -> FALSE
      [] x.kind = "number" -> x.n # 0
      [] x.kind = "string" -> x.s # ""
      [] OTHER -> TRUE

\* x || d
OrElse(x, d) == IF Truthy(x) THEN x ELSE d

\* The members a `filters` object can get, and the other arguments the
\* handlers read.
FilterKeys ==
    {"technologies", "technology_categories", "countries", "since", "query",
     "job_functions", "job_levels", "industries", "keywords", "job_titles"}
ArgNames ==
    FilterKeys \cup {"domain", "organization_id", "slug", "organization_domain",
                     "limit", "offset", "order_by_column", "order_by_direction"}

\* The argument values the modelled clients supply.
Bindings ==
    {<<"domain", Str("acme.com")>>, <<"organization_id", Num(42)>>,
     <<"organization_id", Num(0)>>, <<"query", Str("")>>,
     <<"technologies", List(<< >>)>>,
     <<"slug", Str("acme")>>, <<"organization_domain", Str("acme.com")>>,
     <<"technologies", List(<<"react">>)>>,
     <<"technology_categories", List(<<"frontend">>)>>,
     <<"countries", List(<<"US">>)>>, <<"since", Str("2024-01-01")>>,
     <<"query", Str("platform")>>, <<"job_functions", List(<<"engineering">>)>>,
     <<"job_levels", List(<<"executive">>)>>, <<"industries", List(<<"software">>)>>,
     <<"keywords", Str("backend")>>, <<"job_titles", List(<<"CTO">>)>>,
     <<"limit", Num(20)>>, <<"limit", Num(0)>>, <<"limit", Num(500)>>,
     <<"offset", Num(5)>>, <<"offset", Num(10001)>>,
     <<"order_by_column", Str("name")>>, <<"order_by_direction", Str("DESC")>>}

\* The arguments object in which the bindings bs are supplied.
Supply(bs) ==
    [a \in ArgNames |->
        IF \E b \in bs : b[1] = a THEN (CHOOSE b \in bs : b[1] = a)[2] ELSE Undefined]

\* How many arguments a modelled call supplies at most.
MaxSupplied == 3

RECURSIVE BindingSets(_)
BindingSets(n) ==
    IF n = 0 THEN {{}}
    ELSE LET fewer == BindingSets(n - 1)
         IN  fewer \cup UNION {{bs \cup {b} :
                                   b \in {x \in Bindings : \A y \in bs : y[1] # x[1]}} :
                                bs \in fewer}

ToolArgs == {Supply(bs) : bs \in BindingSets(MaxSupplied)}
NoArgs == Supply({})
\* Calls that supply none or one of a few arguments.
HistoryArgs ==
    {Supply(bs) : bs \in {{}} \cup {{b} : b \in {x \in Bindings :
                              x[1] \in {"domain", "technologies", "query", "limit"}}}}

\* The `organization` member of a request body; `present` is FALSE when the
\* body has no such member.
Organization(domain, id, slug) ==
    [present |-> TRUE, domain |-> domain, id |-> id, slug |-> slug]
NoOrganization ==
    [present |-> FALSE, domain |-> Undefined, id |-> Undefined, slug |-> Undefined]

\* The `filters` member of a request body, by key.
EmptyFilters == [k \in FilterKeys |-> Undefined]
Filters(members) == [present |-> TRUE, members |-> members]
NoFilters == [present |-> FALSE, members |-> EmptyFilters]

\* A filters object shared by all calls instead of a new one per call
\* (checked against C21_SameArgsSameRequest).
NewFiltersShared ==
    IF call.op = "tools/call"
    THEN call.outcome.request.body.filters.members
    ELSE EmptyFilters

\* const filters: Record<string, unknown> = {}
NewFilters == EmptyFilters

\* A copy of every supplied filter, falsy ones included (checked against
\* C35_FiltersContents).
CopySupplied(args, keys) ==
    [k \in FilterKeys |-> IF k \in keys THEN args[k] ELSE NewFilters[k]]

\* if (args.k) filters.k = args.k, for the keys the tool reads
CopyTruthy(args, keys) ==
    [k \in FilterKeys |-> IF k \in keys /\ Truthy(args[k]) THEN args[k] ELSE NewFilters[k]]

\* Object.keys(filters).length > 0 ? filters : fallback
FiltersOr(members, fallback) ==
    IF \E k \in FilterKeys : members[k] # Undefined THEN Filters(members) ELSE Filters(fallback)

TechnologiesEmpty == [EmptyFilters EXCEPT !["technologies"] = List(<< >>)]

\* A request body: its members, and the arguments object when that is
\* sent as the body unchanged.
Body(organization, filters, limit, offset, column, direction) ==
    [organization |-> organization, filters |-> filters, limit |-> limit,
     offset |-> offset, order_by_column |-> column, order_by_direction |-> direction,
     forwarded |-> NoArgs]
NoBody == Body(NoOrganization, NoFilters, Undefined, Undefined, Undefined, Undefined)
Forwarded(args) == [NoBody EXCEPT !.forwarded = args]

\* The endpoint of an upstream request, `/${version}/${resource}`.
Path(version, resource) == [version |-> version, resource |-> resource]

\* An upstream request: method, path, the `domain` query parameter and the body.
Request(method, path, query, body) ==
    [method |-> method, path |-> path, query |-> query, body |-> body]
NoRequest == Request(None, Path(None, None), None, NoBody)

Threw(message) == [threw |-> TRUE, message |-> message, request |-> NoRequest]
Called(request) == [threw |-> FALSE, message |-> NoMessage, request |-> request]
NoOutcome == [threw |-> FALSE, message |-> NoMessage, request |-> NoRequest]

\* encodeURIComponent(args.domain) inside a template literal
EncodedDomain(args) == IF args.domain = Undefined THEN "undefined" ELSE args.domain.s

\* server-http.ts, the tools/call branch up to its call of sumbleRequest.
HttpToolCall(toolName, args) ==
    CASE toolName = "find_organizations" ->
           Called(Request("POST", Path("v2", "organizations/find"), None,
                    Body(NoOrganization,
                         Filters([EmptyFilters EXCEPT
                                    !["technologies"] = OrElse(args.technologies, List(<< >>)),
                                    !["industries"] = OrElse(args.industries, List(<< >>)),
                                    !["countries"] = OrElse(args.countries, List(<< >>))]),
                         OrElse(args.limit, Num(10)), Undefined, Undefined, Undefined)))
      [] toolName = "enrich_organization" ->
           Called(Request("POST", Path("v2", "organizations/enrich"), None,
                    Body(Organization(args.domain, Undefined, Undefined),
                         Filters(EmptyFilters),
                         Undefined, Undefined, Undefined, Undefined)))
      [] toolName = "find_jobs" ->
           Called(Request("POST", Path("v2", "jobs/find"), None,
                    Body(NoOrganization,
                         Filters([EmptyFilters EXCEPT
                                    !["technologies"] = OrElse(args.technologies, List(<< >>)),
                                    !["countries"] = OrElse(args.countries, List(<< >>)),
                                    !["keywords"] = IF Truthy(args.keywords)
                                                    THEN List(<<args.keywords.s>>)
                                                    ELSE List(<< >>)]),
                         OrElse(args.limit, Num(10)), Undefined, Undefined, Undefined)))
      [] toolName = "find_people" ->
           Called(Request("POST", Path("v3", "people/find"), None,
                    Body(Organization(args.organization_domain, Undefined, Undefined),
                         Filters([EmptyFilters EXCEPT
                                    !["job_titles"] = OrElse(args.job_titles, List(<< >>)),
                                    !["countries"] = OrElse(args.countries, List(<< >>))]),
                         OrElse(args.limit, Num(10)), Undefined, Undefined, Undefined)))
      [] OTHER -> Threw(ErrorMessage("Unknown tool", None, toolName))

\* part_000, the tools/call branch up to its call of sumbleRequest.
ForwardingToolCall(toolName, args) ==
    CASE toolName = "find_organizations" ->
           Called(Request("POST", Path("v1", "organizations/search"), None, Forwarded(args)))
      [] toolName = "enrich_organization" ->
           Called(Request("GET", Path("v1", "organizations/enrich"), EncodedDomain(args), NoBody))
      [] toolName = "find_jobs" ->
           Called(Request("POST", Path("v1", "jobs/search"), None, Forwarded(args)))
      [] toolName = "find_people" ->
           Called(Request("POST", Path("v1", "people/search"), None, Forwarded(args)))
      [] OTHER -> Threw(ErrorMessage("Unknown tool", None, toolName))

\* part_001: if (args.domain) ... else if (args.organization_id) ... else
\* if (args.slug) ...; NoOrganization when none of them is set.
organizationOf(args) ==
    IF Truthy(args.domain) THEN Organization(args.domain, Undefined, Undefined)
    ELSE IF Truthy(args.organization_id)
         THEN Organization(Undefined, args.organization_id, Undefined)
    ELSE IF Truthy(args.slug) THEN Organization(Undefined, Undefined, args.slug)
    ELSE NoOrganization

\* part_001, handleToolCall up to its call of SumbleClient.request.
handleToolCall(toolName, args) ==
    CASE toolName = "find_organizations" ->
           Called(Request("POST", Path("v3", "organizations/find"), None,
                    Body(NoOrganization,
                         FiltersOr(CopyTruthy(args, {"technologies", "technology_categories",
                                                     "since", "query"}),
                                   TechnologiesEmpty),
                         OrElse(args.limit, Num(10)), OrElse(args.offset, Num(0)),
                         args.order_by_column, args.order_by_direction)))
      [] toolName = "enrich_organization" ->
           IF organizationOf(args).present
           THEN Called(Request("POST", Path("v3", "organizations/enrich"), None,
                         Body(organizationOf(args),
                              FiltersOr(CopyTruthy(args, {"technologies",
                                                          "technology_categories",
                                                          "since", "query"}),
                                        TechnologiesEmpty),
                              Undefined, Undefined, Undefined, Undefined)))
           ELSE Threw(ErrorMessage("Must provide domain, organization_id, or slug",
                                   None, None))
      [] toolName = "find_jobs" ->
           Called(Request("POST", Path("v3", "jobs/find"), None,
                    Body(organizationOf(args),
                         FiltersOr(CopyTruthy(args, {"technologies", "technology_categories",
                                                     "countries", "since", "query"}),
                                   TechnologiesEmpty),
                         OrElse(args.limit, Num(10)), OrElse(args.offset, Num(0)),
                         Undefined, Undefined)))
      [] toolName = "find_people" ->
           IF organizationOf(args).present
           THEN Called(Request("POST", Path("v3", "people/find"), None,
                         Body(organizationOf(args),
                              FiltersOr(CopyTruthy(args, {"job_functions", "job_levels",
                                                          "countries", "since", "query"}),
                                        EmptyFilters),
                              OrElse(args.limit, Num(10)), OrElse(args.offset, Num(0)),
                              Undefined, Undefined)))
           ELSE Threw(ErrorMessage("Must provide domain, organization_id, or slug",
                                   None, None))
      [] OTHER -> Threw(ErrorMessage("Unknown tool", None, toolName))

\* The tool layer of server v.
ToolCallOutcome(v, toolName, args) ==
    CASE v = "server-http.ts" -> HttpToolCall(toolName, args)
      [] v = "part_000" -> ForwardingToolCall(toolName, args)
      [] v = "part_001" -> handleToolCall(toolName, args)

\* process.env.SUMBLE_API_KEY: unset, set to the empty string, or set.
ApiKeys == {None, "", "sumble-key"}

\* `!SUMBLE_API_KEY`
KeyMissing(key) == key = None \/ key = ""

\* The server process: the credential it was started with, how far the
\* module got ("starting", "listening", "exited"), and its exit code.
Process(key, phase, exitCode) ==
    [SUMBLE_API_KEY |-> key, phase |-> phase, exitCode |-> exitCode]

Starting(key) == Process(key, "starting", 0)
Listening == Process("sumble-key", "listening", 0)

\* The response of a route that serves no session.
Reply(method, pathname, status, body) ==
    [method |-> method, pathname |-> pathname, status |-> status, body |-> body]

NoReply == Reply(None, None, 0, None)

HttpMethods == {"OPTIONS", "GET", "POST"}
Pathnames == {"/", "/health", "/sse", "/message", "/other"}

NoCall == [op |-> None]

----------------------------------------------------------------------------
Init ==
    /\ variant \in Variants
    /\ clients = [i \in Ids |-> 0]
    /\ conns = << >>
    /\ subs = << >>
    /\ ticks = 0
    /\ process = Listening
    /\ reply = NoReply
    /\ call = NoCall
    /\ prev = NoCall

\* A stream-open that registers the session without announcing the endpoint
\* (checked against C3_EndpointFirst).
SseOpenUnannounced(h, clientId) ==
    /\ Len(conns) + Len(subs) < MaxReq
    /\ conns' = Append(conns,
                  [id |-> clientId, open |-> TRUE, keepAlive |-> TRUE, frames |-> << >>])
    /\ clients' = [clients EXCEPT ![clientId] = Len(conns) + 1]
    /\ UNCHANGED <<variant, process, reply, call, prev, subs, ticks>>

\* GET /sse
SseOpen(h, clientId) ==
    /\ Len(conns) + Len(subs) < MaxReq
    /\ conns' = Append(conns,
                  [id        |-> clientId,
                   open      |-> TRUE,
                   keepAlive |-> TRUE,
                   frames    |-> <<EndpointFrame(messageEndpoint(h, clientId))>>])
    /\ clients' = [clients EXCEPT ![clientId] = Len(conns) + 1]
    /\ UNCHANGED <<variant, process, reply, call, prev, subs, ticks>>

\* The setInterval callback of connection c.
KeepAlive(c) ==
    /\ c \in ConnIds
    /\ conns[c].keepAlive
    /\ ticks < MaxTicks
    /\ conns' = IF clients[conns[c].id] # 0
                THEN StreamWrite(conns, c, KeepAliveFrame)
                ELSE [conns EXCEPT ![c].keepAlive = FALSE]
    /\ ticks' = ticks + 1
    /\ UNCHANGED <<variant, process, reply, call, prev, clients, subs>>

\* A close handler that forgets clearInterval (checked against
\* C8_CloseCancelsKeepAlive).
SseCloseKeepTimer(c) ==
    /\ c \in ConnIds
    /\ conns[c].open
    /\ clients' = [clients EXCEPT ![conns[c].id] = 0]
    /\ conns' = [conns EXCEPT ![c].open = FALSE]
    /\ UNCHANGED <<variant, process, reply, call, prev, subs, ticks>>

\* req.on("close") of connection c.
SseClose(c) ==
    /\ c \in ConnIds
    /\ conns[c].open
    /\ clients' = [clients EXCEPT ![conns[c].id] = 0]
    /\ conns' = [conns EXCEPT ![c].open = FALSE, ![c].keepAlive = FALSE]
    /\ UNCHANGED <<variant, process, reply, call, prev, subs, ticks>>

\* POST /message?sessionId=...: the session check on arrival.
PostArrive(sessionId) ==
    /\ Len(conns) + Len(subs) < MaxReq
    /\ subs' = Append(subs,
                 IF SessionCheck(sessionId)
                 THEN [NewSub(sessionId) EXCEPT !.accepted = clients[sessionId]]
                 ELSE [NewSub(sessionId) EXCEPT !.pc = "done", !.status = 400, !.body = "error"])
    /\ UNCHANGED <<variant, process, reply, call, prev, clients, conns, ticks>>

\* A response target looked up again when the upstream call returns
\* (checked against C9_LateResultDiscarded).
ResponseTargetLookup(s) == clients[subs[s].sessionId]

\* The connection the response of submission s is written to: `client`,
\* bound by clients.get when the body was dispatched, before any await.
ResponseTarget(s) == subs[s].client

\* An acknowledgment without the stream write (checked against
\* C6_WriteThenAck).
RespondAckOnly(s, sub, c, env, t) ==
    /\ conns' = conns
    /\ subs' = [subs EXCEPT ![s] =
                  [sub EXCEPT !.pc = "done",
                              !.openAtWrite = (c # 0 /\ conns[c].open),
                              !.doneSeq = t,
                              !.status = AckStatus,
                              !.body = AckBody]]

\* client?.res.write(`event: message...`) and then the acknowledgment of
\* the POST, in one turn of the event loop.  `sub` is the submission's
\* record as dispatched, `t` the logical time of the write.
Respond(s, sub, c, env, t) ==
    /\ conns' = StreamWrite(conns, c, MessageFrame(env))
    /\ subs' = [subs EXCEPT ![s] =
                  [sub EXCEPT !.pc = "done",
                              !.openAtWrite = (c # 0 /\ conns[c].open),
                              !.doneSeq = t,
                              !.status = AckStatus,
                              !.body = AckBody]]

\* A handler branch that returns without ending the POST's response
\* (checked against C27_EventuallyAnswered).
ReplySilent(s, sub, status, body, t) ==
    /\ conns' = conns
    /\ subs' = [subs EXCEPT ![s] = [sub EXCEPT !.pc = "done", !.doneSeq = t]]

\* A response to the POST that writes nothing onto any stream.
ReplyOnly(s, sub, status, body, t) ==
    /\ conns' = conns
    /\ subs' = [subs EXCEPT ![s] =
                  [sub EXCEPT !.pc = "done", !.doneSeq = t,
                              !.status = status, !.body = body]]

\* req.on("end") of submission s with body m, up to its first await.
PostEnd(s, m) ==
    /\ s \in SubIds
    /\ subs[s].pc = "body"
    /\ LET client == ClientsGet(subs[s].sessionId)
           t == Clock + 1
           sub == [subs[s] EXCEPT !.method = m.method, !.id = m.id, !.tool = m.tool,
                                  !.client = client, !.endSeq = t]
       IN  CASE m = Malformed ->
                  ReplyOnly(s, sub, 400, "error", t + 1)
             [] m.method = "initialize" ->
                  Respond(s, sub, client, ResultEnvelope(s, m.id, InitializeResult), t + 1)
             [] m.method = "tools/list" ->
                  Respond(s, sub, client, ResultEnvelope(s, m.id, ToolsListResult), t + 1)
             [] m.method = "tools/call" /\ m.tool \in CallableTools(variant) ->
                  \* await sumbleRequest(...): the call is started here
                  /\ conns' = conns
                  /\ subs' = [subs EXCEPT ![s] =
                                [sub EXCEPT !.pc = "upstream",
                                            !.callStart = IF clients[sub.sessionId] # 0
                                                          THEN "in-table" ELSE "gone"]]
             [] m.method = "tools/call" /\ m.tool \notin CallableTools(variant) ->
                  \* throw new Error(`Unknown tool: ...`), caught by the inner catch
                  Respond(s, sub, client,
                          ErrorEnvelope(s, m.id, -32000,
                                        ErrorMessage("Unknown tool", None, m.tool)),
                          t + 1)
             [] m.method = "notifications/initialized" ->
                  ReplyOnly(s, sub, 202, "accepted", t + 1)
             [] OTHER ->
                  Respond(s, sub, client, MethodNotFound(s, m.id), t + 1)
    /\ UNCHANGED <<variant, process, reply, call, prev, clients, ticks>>

\* A handler that ends the session's stream when the tool call failed
\* (checked against C13_FailureKeepsSession).
UpstreamCompleteDropSession(s, o) ==
    /\ s \in SubIds
    /\ subs[s].pc = "upstream"
    /\ LET r == sumbleRequest(o)
           c == ResponseTarget(s)
       IN  IF r.threw /\ c # 0
           THEN /\ conns' = [StreamWrite(conns, c,
                                MessageFrame(ErrorEnvelope(s, subs[s].id, -32000, r.message)))
                               EXCEPT ![c].open = FALSE, ![c].keepAlive = FALSE]
                /\ subs' = [subs EXCEPT ![s].pc = "done",
                                        ![s].openAtWrite = conns[c].open,
                                        ![s].doneSeq = Clock + 1,
                                        ![s].status = AckStatus,
                                        ![s].body = AckBody]
                /\ clients' = [clients EXCEPT ![subs[s].sessionId] = 0]
           ELSE /\ Respond(s, subs[s], c,
                           IF r.threw
                           THEN ErrorEnvelope(s, subs[s].id, -32000, r.message)
                           ELSE ResultEnvelope(s, subs[s].id, ContentResult),
                           Clock + 1)
                /\ clients' = clients
    /\ UNCHANGED <<variant, process, reply, call, prev, ticks>>

\* The upstream call of submission s ends with outcome o, and the handler
\* resumes after `await sumbleRequest(...)`: the result envelope, or the
\* inner catch with err.message.
UpstreamComplete(s, o) ==
    /\ s \in SubIds
    /\ subs[s].pc = "upstream"
    /\ LET r == sumbleRequest(o)
       IN  Respond(s, subs[s], ResponseTarget(s),
                   IF r.threw THEN ErrorEnvelope(s, subs[s].id, -32000, r.message)
                              ELSE ResultEnvelope(s, subs[s].id, ContentResult),
                   Clock + 1)
    /\ UNCHANGED <<variant, process, reply, call, prev, clients, ticks>>

Next ==
    \/ \E h \in ProxiedHeaders, clientId \in Ids : SseOpen(h, clientId)
    \/ \E c \in ConnIds : KeepAlive(c)
    \/ \E c \in ConnIds : SseClose(c)
    \/ \E sessionId \in Ids : PostArrive(sessionId)
    \/ \E s \in SubIds, m \in Bodies : PostEnd(s, m)
    \/ \E s \in SubIds, o \in UpstreamOutcomes : UpstreamComplete(s, o)

Spec == Init /\ [][Next]_vars

\* The streams and the submissions without the keep-alive timers, which
\* read and write no submission.
NextLive ==
    \/ \E h \in ProxiedHeaders, clientId \in Ids : SseOpen(h, clientId)
    \/ \E c \in ConnIds : SseClose(c)
    \/ \E sessionId \in Ids : PostArrive(sessionId)
    \/ \E s \in SubIds, m \in Bodies : PostEnd(s, m)
    \/ \E s \in SubIds, o \in UpstreamOutcomes : UpstreamComplete(s, o)

\* With every started upstream call completing: fetch resolves or rejects,
\* and the event loop then resumes the handler.
SpecLive ==
    /\ Init
    /\ [][NextLive]_vars
    /\ \A s \in 1..MaxReq :
          WF_vars(\E o \in UpstreamOutcomes : UpstreamComplete(s, o))

\* server.ts: transports[sessionId], on an object literal used as the table
\* (`clients` holds its own properties).
TransportsLookup(sessionId) ==
    IF sessionId \in Ids /\ clients[sessionId] # 0 THEN "transport"
    ELSE IF sessionId \in InheritedKeys THEN "inherited"
    ELSE "undefined"

\* server.ts, app.get("/sse"): the SDK transport draws the session
\* identifier and owns the stream; the handler registers it.
ExpressSseOpen(sessionId) ==
    /\ Len(conns) + Len(subs) < MaxReq
    /\ conns' = Append(conns,
                  [id |-> sessionId, open |-> TRUE, keepAlive |-> FALSE, frames |-> << >>])
    /\ clients' = [clients EXCEPT ![sessionId] = Len(conns) + 1]
    /\ UNCHANGED <<variant, process, reply, call, prev, subs, ticks>>

\* server.ts, res.on("close"): delete transports[transport.sessionId]
ExpressSseClose(c) ==
    /\ c \in ConnIds
    /\ conns[c].open
    /\ clients' = [clients EXCEPT ![conns[c].id] = 0]
    /\ conns' = [conns EXCEPT ![c].open = FALSE]
    /\ UNCHANGED <<variant, process, reply, call, prev, subs, ticks>>

\* server.ts, app.post("/messages").  A falsy lookup is answered 400; a
\* transport gets the submission (the SDK's handlePostMessage, pc "sdk");
\* an inherited value passes the check and the call of its missing
\* handlePostMessage throws inside the async handler: the framework either
\* answers 500 (caught) or the rejection stays unhandled and the request is
\* never answered.
ExpressPost(sessionId, caught) ==
    /\ Len(conns) + Len(subs) < MaxReq
    /\ LET transport == TransportsLookup(sessionId)
           sub == NewSub(sessionId)
       IN  subs' = Append(subs,
                     CASE transport = "undefined" ->
                            [sub EXCEPT !.pc = "done", !.status = 400, !.body = "error"]
                       [] transport = "transport" ->
                            [sub EXCEPT !.pc = "sdk", !.client = clients[sessionId]]
                       [] transport = "inherited" ->
                            [sub EXCEPT !.pc = "fault",
                                        !.status = IF caught THEN 500 ELSE 0,
                                        !.body = IF caught THEN "error" ELSE None])
    /\ UNCHANGED <<variant, process, reply, call, prev, clients, conns, ticks>>

InitExpress ==
    /\ variant = "server.ts"
    /\ clients = [i \in Ids |-> 0]
    /\ conns = << >>
    /\ subs = << >>
    /\ ticks = 0
    /\ process = Listening
    /\ reply = NoReply
    /\ call = NoCall
    /\ prev = NoCall

NextExpress ==
    \/ \E sessionId \in Ids \ {""} : ExpressSseOpen(sessionId)
    \/ \E c \in ConnIds : ExpressSseClose(c)
    \/ \E sessionId \in Ids \cup InheritedKeys, caught \in BOOLEAN :
          ExpressPost(sessionId, caught)

SpecExpress == InitExpress /\ [][NextExpress]_vars

\* tools/list handled by the tool layer.
ToolsList ==
    /\ call' = [op |-> "tools/list", session |-> None, tool |-> None, args |-> NoArgs,
                tools |-> ListedTools(variant), outcome |-> NoOutcome]
    /\ UNCHANGED <<variant, process, reply, clients, conns, subs, ticks, prev>>

\* tools/call handled by the tool layer, up to the upstream request, for a
\* call that arrived on `session`.  `keep` says whether the earlier call
\* kept for comparison stays, or the call before this one takes its place.
\* The tool calls of server.ts go through the SDK and are not modelled.
ToolCall(toolName, args, session, keep) ==
    /\ variant # "server.ts"
    /\ call' = [op |-> "tools/call", session |-> session, tool |-> toolName,
                args |-> args, tools |-> {},
                outcome |-> ToolCallOutcome(variant, toolName, args)]
    /\ prev' = IF keep \/ call.op # "tools/call" THEN prev ELSE call
    /\ UNCHANGED <<variant, process, reply, clients, conns, subs, ticks>>

InitTools ==
    /\ variant \in ToolServers
    /\ clients = [i \in Ids |-> 0]
    /\ conns = << >>
    /\ subs = << >>
    /\ ticks = 0
    /\ process = Listening
    /\ reply = NoReply
    /\ call = NoCall
    /\ prev = NoCall

\* The tool layer applied to one call: the shaping reads nothing but the
\* tool name and the arguments.
NextTools ==
    \/ ToolsList
    \/ /\ call.op = None
       /\ \E toolName \in DeclaredTools \cup ToolNames, args \in ToolArgs :
             ToolCall(toolName, args, "k1", TRUE)

SpecTools == InitTools /\ [][NextTools]_vars

\* The tool layer over a run of calls, arriving on either of two sessions.
NextHistory ==
    \/ ToolsList
    \/ \E toolName \in {"find_organizations", "find_jobs", "no_such_tool"},
          args \in HistoryArgs,
          session \in {"k1", "k2"}, keep \in BOOLEAN :
          ToolCall(toolName, args, session, keep)

SpecHistory == InitTools /\ [][NextHistory]_vars

\* Notifications as JSON-RPC has them (no `id`), a request that lacks its
\* `id`, and JSON text that parses to something other than a JSON-RPC
\* object (42, [], {}): message.method and message.id are then undefined.
Notifications ==
    {[method |-> m, id |-> None, tool |-> None] :
        m \in {"notifications/initialized", "notifications/cancelled"}}
IdlessRequests == {[method |-> "tools/list", id |-> None, tool |-> None]}
NotAnObject == [method |-> "<undefined>", id |-> None, tool |-> None]

AnyBodies == Bodies \cup Notifications \cup IdlessRequests \cup {NotAnObject}

\* The transport with clients that post any of these bodies.
NextAnyBody ==
    \/ \E h \in ProxiedHeaders, clientId \in Ids : SseOpen(h, clientId)
    \/ \E c \in ConnIds : KeepAlive(c)
    \/ \E c \in ConnIds : SseClose(c)
    \/ \E sessionId \in Ids : PostArrive(sessionId)
    \/ \E s \in SubIds, m \in AnyBodies : PostEnd(s, m)
    \/ \E s \in SubIds, o \in UpstreamOutcomes : UpstreamComplete(s, o)

SpecAnyBody == Init /\ [][NextAnyBody]_vars

\* The stream side of the server alone, with every combination of the
\* headers the /sse handler reads.
NextUrl ==
    \/ \E h \in Headers, clientId \in Ids : SseOpen(h, clientId)
    \/ \E c \in ConnIds : KeepAlive(c)
    \/ \E c \in ConnIds : SseClose(c)

SpecUrl == Init /\ [][NextUrl]_vars

\* Module start: the credential check, then everything else the module does
\* (createServer and listen; in the stdio server, main up to connect).
StartupUnchecked ==
    /\ process.phase = "starting"
    /\ process' = [process EXCEPT !.phase = "listening"]
    /\ UNCHANGED <<variant, reply, clients, conns, subs, ticks, call, prev>>

Startup ==
    /\ process.phase = "starting"
    /\ process' = IF KeyMissing(process.SUMBLE_API_KEY)
                  THEN [process EXCEPT !.phase = "exited", !.exitCode = 1]
                  ELSE [process EXCEPT !.phase = "listening"]
    /\ UNCHANGED <<variant, reply, clients, conns, subs, ticks, call, prev>>

InitStartup ==
    /\ variant \in ToolServers
    /\ process \in {Starting(key) : key \in ApiKeys}
    /\ reply = NoReply
    /\ clients = [i \in Ids |-> 0]
    /\ conns = << >>
    /\ subs = << >>
    /\ ticks = 0
    /\ call = NoCall
    /\ prev = NoCall

\* A server from its start: the handlers exist once the module has run past
\* the credential check.
NextStartup ==
    \/ Startup
    \/ /\ process.phase = "listening"
       /\ \/ variant \in Variants /\ Next
          \/ variant = "server.ts" /\ NextExpress
          \/ variant = "part_001" /\ NextTools

SpecStartup == InitStartup /\ [][NextStartup]_vars

\* The request handler on a request that is neither GET /sse nor POST /message.
Route(method, pathname) ==
    /\ ~(pathname = "/sse" /\ method = "GET")
    /\ ~(pathname = "/message" /\ method = "POST")
    /\ reply' = IF method = "OPTIONS"
                THEN Reply(method, pathname, 204, None)
                ELSE IF pathname = "/" \/ pathname = "/health"
                     THEN Reply(method, pathname, 200, "status ok")
                     ELSE Reply(method, pathname, 404, "Not found")
    /\ UNCHANGED <<variant, process, clients, conns, subs, ticks, call, prev>>

NextRoutes ==
    \/ Next
    \/ \E method \in HttpMethods, pathname \in Pathnames : Route(method, pathname)

SpecRoutes == Init /\ [][NextRoutes]_vars

----------------------------------------------------------------------------
\* Vocabulary of the properties.

\* The positions of the message frames on the stream of connection c.
MessagePositions(c) ==
    {i \in 1..Len(conns[c].frames) : conns[c].frames[i].type = "message"}

\* The submission that produced the message frame at position i of connection c.
Producer(c, i) == conns[c].frames[i].data.sub

\* The places <<c, i>> where a message frame produced by submission s stands.
FramesFrom(s) ==
    UNION {{<<c, i>> : i \in {j \in MessagePositions(c) : Producer(c, j) = s}} :
              c \in ConnIds}

\* The connection bound to submission s once this step is taken (bound by
\* clients.get when the body is dispatched).
BoundClient(s) == subs'[s].client

\* That connection is open when the step begins: a write reaches its stream.
TargetOpen(s) == BoundClient(s) # 0 /\ conns[BoundClient(s)].open

\* The envelope in the frame this step appends to the stream bound to s.
WrittenEnvelope(s) ==
    conns'[BoundClient(s)].frames[Len(conns'[BoundClient(s)].frames)].data

\* In this step exactly one frame is appended to the stream bound to
\* submission s, a message frame produced by s and carrying the id s
\* posted, and s is acknowledged 2xx.
AnsweredOnStream(s) ==
    /\ conns'[BoundClient(s)].frames
         = Append(conns[BoundClient(s)].frames, MessageFrame(WrittenEnvelope(s)))
    /\ WrittenEnvelope(s).sub = s
    /\ WrittenEnvelope(s).id = subs'[s].id
    /\ subs'[s].pc = "done"
    /\ subs'[s].status \in {200, 202}

\* This step is the failure of the tool call of submission s: its upstream
\* call ends without success, or its tool name has no branch.
ToolCallFails(s) ==
    \/ \E o \in UpstreamOutcomes : ~o.ok /\ UpstreamComplete(s, o)
    \/ \E m \in Bodies :
          m.method = "tools/call" /\ m.tool \notin CallableTools(variant) /\ PostEnd(s, m)

\* The member `name` of a request body as it is sent: a member the handler
\* built, or the argument of that name when the arguments are the body.
Sent(body, name) == IF body[name] # Undefined THEN body[name] ELSE body.forwarded[name]

\* The filter `k` of a request body as it is sent: under `filters`.
SentFilter(body, k) == body.filters.members[k]

\* The upstream endpoint declared for each tool.
DeclaredPath(toolName) ==
    CASE toolName = "find_organizations" -> "organizations/find"
      [] toolName = "enrich_organization" -> "organizations/enrich"
      [] toolName = "find_jobs" -> "jobs/find"
      [] toolName = "find_people" -> "people/find"

\* A submission whose method is answered with an envelope.
ResponseBearing(s) ==
    subs[s].method \in {"initialize", "tools/list", "tools/call", "ping"}

Acked2xx(s) == subs[s].status \in {200, 202}

----------------------------------------------------------------------------
\* C1: a submission whose sessionId is missing, was never issued, or belongs
\* to a session that has closed is answered 400 with a plain error body: no
\* JSON-RPC envelope is produced, no upstream call is made and no stream
\* receives a frame because of it.  It holds of the Map-based transports
\* (Spec) and fails on server.ts (SpecExpress).
C1_RejectUnknownSession ==
    \A s \in SubIds :
        subs[s].atArrival \in {"missing", "never", "closed"} =>
            /\ subs[s].pc = "done"
            /\ subs[s].status = 400
            /\ subs[s].body = "error"
            /\ subs[s].callStart = None
            /\ FramesFrom(s) = {}

\* C2: no upstream call is started for a submission whose session is not in
\* the session table when the call is started.
C2_NoCallWithoutSession ==
    \A s \in SubIds : subs[s].callStart # "gone"

\* C3: every stream carries exactly one endpoint event, as its first frame,
\* ahead of every message frame and keep-alive comment; a session in the
\* table has had its endpoint event written.
C3_EndpointFirst ==
    /\ \A c \in ConnIds :
          /\ Len(conns[c].frames) >= 1
          /\ conns[c].frames[1].type = "endpoint"
          /\ \A i \in 2..Len(conns[c].frames) : conns[c].frames[i].type # "endpoint"
    /\ \A id \in Ids :
          clients[id] # 0 =>
              /\ clients[id] \in ConnIds
              /\ Len(conns[clients[id]].frames) >= 1
              /\ conns[clients[id]].frames[1].type = "endpoint"

C3_Witness ==
    \E c \in ConnIds :
        /\ \E i \in 2..Len(conns[c].frames) : conns[c].frames[i].type = "message"
        /\ \E i \in 2..Len(conns[c].frames) : conns[c].frames[i].type = "comment"

\* C4: the advertised URL carries the forwarded scheme and host when the
\* forwarding headers are present, otherwise the scheme and host the client
\* connected through, and the session identifier registered in the table.
C4_EndpointUrl ==
    [][\A h \in Headers, clientId \in Ids :
          SseOpen(h, clientId) =>
              LET c == Len(conns')
                  url == conns'[c].frames[1].data
              IN  /\ url.proto = (IF h.xfproto # None THEN h.xfproto ELSE ConnScheme)
                  /\ (h.xfhost # None => url.host = h.xfhost)
                  /\ (h.xfhost = None /\ h.host # None => url.host = h.host)
                  /\ url.sessionId = clientId
                  /\ clients'[clientId] = c]_vars

\* C5: a message frame stands only on a stream whose session identifier is
\* the one named by the submission that produced it.
C5_RouteToNamedSession ==
    \A c \in ConnIds :
        \A i \in MessagePositions(c) :
            subs[Producer(c, i)].sessionId = conns[c].id

C5_Witness ==
    \E c, d \in ConnIds :
        /\ conns[c].open /\ conns[d].open
        /\ conns[c].id # conns[d].id
        /\ conns[d].id # ""
        /\ MessagePositions(c) # {}

\* C6 as stated: a response-bearing submission acknowledged 2xx has its
\* message frame on a stream.
C6_AckImpliesFrame ==
    \A s \in SubIds :
        Acked2xx(s) /\ ResponseBearing(s) => FramesFrom(s) # {}

\* C6 amended: a response-bearing submission acknowledged 2xx has its frame
\* on the stream of the connection bound at dispatch if that connection was
\* still open when the response was produced, and no frame anywhere if not.
C6_WriteThenAck ==
    \A s \in SubIds :
        Acked2xx(s) /\ ResponseBearing(s) =>
            IF subs[s].openAtWrite
            THEN /\ FramesFrom(s) # {}
                 /\ \A p \in FramesFrom(s) : p[1] = subs[s].client
            ELSE FramesFrom(s) = {}

C6_Witness ==
    /\ \E s \in SubIds :
          /\ Acked2xx(s) /\ subs[s].method = "tools/call" /\ subs[s].callStart # None
          /\ subs[s].openAtWrite
    /\ \E s \in SubIds :
          Acked2xx(s) /\ ResponseBearing(s) /\ ~subs[s].openAtWrite

\* C7: the response to the POST carries an acknowledgment only, never the
\* JSON-RPC envelope.
C7_AckOnly ==
    \A s \in SubIds : subs[s].body # "envelope"

C9_LateResultDiscarded ==
    [][\A s \in SubIds :
          /\ subs[s].pc = "upstream"
          /\ subs'[s].pc = "done"
          /\ subs[s].client # 0
          /\ ~conns[subs[s].client].open
          => /\ conns' = conns
             /\ clients' = clients
             /\ Acked2xx(s)']_vars

C9_Witness ==
    \E s \in SubIds :
        /\ subs[s].pc = "done"
        /\ subs[s].callStart = "in-table"
        /\ ~subs[s].openAtWrite
        /\ Acked2xx(s)
        /\ \E c \in ConnIds : conns[c].open /\ conns[c].id = subs[s].sessionId

\* C10 as stated: of two submissions to one session, the one made first
\* (arrived first and its body received first) has its frame first.
C10_SubmissionOrder ==
    \A c \in ConnIds :
        \A i, j \in MessagePositions(c) :
            LET a == Producer(c, i)
                b == Producer(c, j)
            IN  a < b /\ subs[a].endSeq < subs[b].endSeq => i < j

\* C10 amended: the frames of a stream stand in the order in which the
\* handling of their submissions completed, so a submission handled to
\* completion before another's body was received has its frame first.
C10_CompletionOrder ==
    \A c \in ConnIds :
        \A i, j \in MessagePositions(c) :
            LET a == Producer(c, i)
                b == Producer(c, j)
            IN  /\ (i < j => subs[a].doneSeq < subs[b].doneSeq)
                /\ (a # b /\ subs[a].doneSeq < subs[b].endSeq => i < j)

C10_Witness ==
    \E c \in ConnIds :
        \E i, j \in MessagePositions(c) :
            i < j /\ Producer(c, i) > Producer(c, j)

\* C11: when two tools/call submissions of one session are in flight at
\* once, their frames stand on the stream in the order in which their
\* upstream calls completed, whichever was submitted first; every
\* submission's frame is written once and whole (one frame, carrying the
\* submission's own envelope); and a submission with a synchronous method
\* dispatched while a tools/call is in flight has its frame before the
\* frame of that tools/call.
C11_WeakOrdering ==
    /\ \A s \in SubIds : Cardinality(FramesFrom(s)) <= 1
    /\ \A c \in ConnIds :
          \A i, j \in MessagePositions(c) :
              LET a == Producer(c, i)
                  b == Producer(c, j)
              IN  /\ conns[c].frames[i].data.id = subs[a].id
                  /\ (a # b /\ subs[a].callStart # None /\ subs[b].callStart # None
                         => (i < j <=> subs[a].doneSeq < subs[b].doneSeq))
                  /\ (/\ subs[a].callStart # None
                      /\ subs[b].callStart = None
                      /\ subs[a].endSeq < subs[b].endSeq
                      /\ subs[b].endSeq < subs[a].doneSeq
                      => j < i)

\* Two tools/call submissions of one session whose upstream calls
\* overlapped, the later one completing first, with both frames written.
C11_Witness ==
    \E c \in ConnIds :
        \E i, j \in MessagePositions(c) :
            LET a == Producer(c, i)
                b == Producer(c, j)
            IN  /\ i < j
                /\ subs[a].callStart # None /\ subs[b].callStart # None
                /\ subs[b].endSeq < subs[a].endSeq
                /\ subs[a].endSeq < subs[b].doneSeq

\* C12 as stated: when the upstream call of a tools/call on an open session
\* ends, the frame written is a result envelope exactly if the call
\* succeeded, and otherwise (non-2xx status, or failure) an error envelope
\* with code -32000 whose message carries the upstream status code and the
\* response text; the submission is acknowledged in either case.
C12_StatusInMessage ==
    [][\A s \in SubIds, o \in UpstreamOutcomes :
          UpstreamComplete(s, o) /\ TargetOpen(s)
          => /\ AnsweredOnStream(s)
             /\ (WrittenEnvelope(s).kind = "result" <=> o.ok)
             /\ (~o.ok => /\ WrittenEnvelope(s).kind = "error"
                          /\ WrittenEnvelope(s).code = -32000
                          /\ WrittenEnvelope(s).message.status # None
                          /\ WrittenEnvelope(s).message.status = o.status
                          /\ WrittenEnvelope(s).message.detail = o.text)]_vars

\* C12 amended: the frame is a result envelope (no error member) exactly if
\* the call succeeded, and otherwise an error envelope with code -32000;
\* its message carries the upstream status code and the response text
\* after a non-2xx response, and the failure's own message, without a
\* status code, when the call failed without a response.  The submission
\* is acknowledged 2xx and its handler finishes in every case.
C12_OutcomeEnvelope ==
    [][\A s \in SubIds, o \in UpstreamOutcomes :
          UpstreamComplete(s, o) /\ TargetOpen(s)
          => /\ AnsweredOnStream(s)
             /\ (WrittenEnvelope(s).kind = "result" <=> o.ok)
             /\ (o.ok => WrittenEnvelope(s).message = NoMessage)
             /\ (~o.ok => /\ WrittenEnvelope(s).kind = "error"
                          /\ WrittenEnvelope(s).code = -32000
                          /\ WrittenEnvelope(s).result = NoResult)
             /\ (o.response /\ ~o.ok =>
                    WrittenEnvelope(s).message
                      = ErrorMessage("Sumble API error", o.status, o.text))
             /\ (~o.response =>
                    WrittenEnvelope(s).message = ErrorMessage(o.text, None, None))]_vars

\* A tools/call on an open session whose upstream call returned a non-2xx
\* status: the error frame stands on the stream and the POST is acknowledged.
C12_Witness ==
    \E c \in ConnIds :
        \E i \in MessagePositions(c) :
            LET s == Producer(c, i)
                e == conns[c].frames[i].data
            IN  /\ subs[s].method = "tools/call"
                /\ subs[s].callStart # None
                /\ e.kind = "error" /\ e.code = -32000
                /\ e.message.status # None
                /\ Acked2xx(s)

\* C13: a failed tool call (upstream non-2xx, network error, unknown tool;
\* a missing identifier reaches the upstream and fails there) leaves the
\* session table unchanged and every session as it was: no stream is
\* ended, no keep-alive timer is cancelled, the session check answers for
\* every identifier as before, so a later submission to the same session
\* is accepted; and no stream other than the one bound to the failed
\* submission changes at all.
C13_FailureKeepsSession ==
    [][\A s \in SubIds :
          ToolCallFails(s)
          => /\ clients' = clients
             /\ \A id \in Ids : SessionCheck(id)' = SessionCheck(id)
             /\ \A c \in ConnIds :
                   /\ conns'[c].open = conns[c].open
                   /\ conns'[c].keepAlive = conns[c].keepAlive
                   /\ conns'[c].id = conns[c].id
                   /\ (c # BoundClient(s) => conns'[c] = conns[c])
             /\ (TargetOpen(s) => AnsweredOnStream(s))]_vars

\* On one open stream, the error frame of a failed tool call, and behind it
\* the frame of a submission dispatched after the failure.
C13_Witness ==
    \E c \in ConnIds :
        \E i, j \in MessagePositions(c) :
            LET a == Producer(c, i)
                b == Producer(c, j)
            IN  /\ i < j
                /\ conns[c].open /\ conns[c].keepAlive /\ clients[conns[c].id] = c
                /\ subs[a].method = "tools/call"
                /\ conns[c].frames[i].data.kind = "error"
                /\ subs[a].doneSeq < subs[b].endSeq
                /\ Acked2xx(b)

\* C14: a tools/call whose tool name is not one of the declared tools, a
\* missing name included, is answered in the turn its body ends: no
\* upstream call is started, the submission is acknowledged, the table and
\* every session stay as they were, and if the bound stream is open the
\* frame written is an error envelope with code -32000 whose message names
\* the unknown tool.
C14_UnknownTool ==
    [][\A s \in SubIds, m \in Bodies :
          m.method = "tools/call" /\ m.tool \notin DeclaredTools /\ PostEnd(s, m)
          => /\ subs'[s].pc = "done"
             /\ subs'[s].callStart = None
             /\ subs'[s].status \in {200, 202}
             /\ clients' = clients
             /\ \A c \in ConnIds :
                   conns'[c].open = conns[c].open /\ conns'[c].keepAlive = conns[c].keepAlive
             /\ (TargetOpen(s)
                   => /\ AnsweredOnStream(s)
                      /\ WrittenEnvelope(s).kind = "error"
                      /\ WrittenEnvelope(s).code = -32000
                      /\ WrittenEnvelope(s).message
                           = ErrorMessage("Unknown tool", None, m.tool))]_vars

\* The error frame of a tools/call that named no tool, on a stream that is
\* still open.
C14_Witness ==
    \E c \in ConnIds :
        \E i \in MessagePositions(c) :
            LET s == Producer(c, i)
                e == conns[c].frames[i].data
            IN  /\ conns[c].open
                /\ subs[s].method = "tools/call"
                /\ subs[s].tool = None
                /\ subs[s].callStart = None
                /\ e.code = -32000
                /\ e.message.text = "Unknown tool"

\* C15: in every server, a tools/call of enrich_organization or find_people
\* whose arguments set none of domain, organization_id and slug ends in a
\* tool-execution error and no upstream request is made for it.
C15_IdentifierRequired ==
    /\ call.op = "tools/call"
    /\ call.tool \in {"enrich_organization", "find_people"}
    /\ call.args.domain = Undefined
    /\ call.args.organization_id = Undefined
    /\ call.args.slug = Undefined
    => /\ call.outcome.threw
       /\ call.outcome.request = NoRequest

\* C16: in every server, tools/list returns exactly the four declared tool
\* descriptors (find_organizations, enrich_organization, find_jobs,
\* find_people), and the tools listed are exactly the tools tools/call
\* dispatches.
C16_FourToolsListed ==
    call.op = "tools/list"
    => /\ call.tools = DeclaredTools
       /\ CallableTools(variant) = call.tools

\* C17: a submission with method notifications/initialized is acknowledged
\* and writes no frame to any stream, and no submitted message without an
\* `id` has a message frame written because of it.
C17_NoReplyToNotification ==
    \A s \in SubIds :
        subs[s].endSeq > 0
        => /\ (subs[s].method = "notifications/initialized"
                 => Acked2xx(s) /\ FramesFrom(s) = {})
           /\ (subs[s].method # "<malformed>" /\ subs[s].id = None
                 => FramesFrom(s) = {})

\* C18: a well-formed submission whose method is none of initialize,
\* tools/list, tools/call and notifications/initialized starts no upstream
\* call and is acknowledged 2xx; if its session's stream is open when it is
\* answered, exactly one frame is written because of it, on that stream: an
\* error envelope with code -32601, message "Method not found" and the id
\* the submission posted.
C18_MethodNotFound ==
    \A s \in SubIds :
        /\ subs[s].pc = "done"
        /\ subs[s].endSeq > 0
        /\ subs[s].method \notin {"<malformed>", "initialize", "tools/list", "tools/call",
                                   "notifications/initialized"}
        => /\ subs[s].callStart = None
           /\ Acked2xx(s)
           /\ Cardinality(FramesFrom(s)) <= 1
           /\ \A p \in FramesFrom(s) :
                 /\ p[1] = subs[s].client
                 /\ conns[p[1]].id = subs[s].sessionId
                 /\ conns[p[1]].frames[p[2]].data
                      = [kind |-> "error", id |-> subs[s].id, code |-> -32601,
                         message |-> ErrorMessage("Method not found", None, None),
                         result |-> NoResult, sub |-> s]
           /\ (subs[s].openAtWrite => FramesFrom(s) # {})

\* An unknown method answered on an open stream.
C18_Witness ==
    \E s \in SubIds :
        /\ subs[s].method = "ping"
        /\ subs[s].openAtWrite
        /\ subs[s].pc = "done"
        /\ FramesFrom(s) # {}

\* C19: a submission whose body is not a parseable JSON-RPC object (text
\* that is not JSON, or JSON that is not such an object) is answered 400
\* with a plain error body, has no frame written because of it and starts
\* no upstream call.
C19_MalformedRejected ==
    \A s \in SubIds :
        subs[s].endSeq > 0 /\ subs[s].method \in {"<malformed>", "<undefined>"}
        => /\ subs[s].status = 400
           /\ subs[s].body = "error"
           /\ FramesFrom(s) = {}
           /\ subs[s].callStart = None

\* C20: no two streams that are open at the same time have the same
\* session identifier.
C20_UniqueOpenIds ==
    \A c, d \in ConnIds :
        c # d /\ conns[c].open /\ conns[d].open => conns[c].id # conns[d].id

C22_FindJobsBody ==
    call.op = "tools/call" /\ call.tool = "find_jobs"
    => /\ ~call.outcome.threw
       /\ \A k \in {"technologies", "technology_categories", "countries", "since", "query"} :
             call.args[k] # Undefined
             => SentFilter(call.outcome.request.body, k) = call.args[k]
       /\ (call.args.limit # Undefined
             => Sent(call.outcome.request.body, "limit") = call.args.limit)
       /\ (call.args.offset = Undefined
             => Sent(call.outcome.request.body, "offset") = Num(0))
       /\ (call.args = Supply({<<"technologies", List(<<"react">>)>>,
                               <<"countries", List(<<"US">>)>>, <<"limit", Num(20)>>})
             => \A k \in FilterKeys :
                   SentFilter(call.outcome.request.body, k) # Undefined
                   <=> k \in {"technologies", "countries"})

\* C23: in every server, a call of a declared tool that goes upstream goes
\* to the endpoint declared for that tool: find_organizations to
\* organizations/find, enrich_organization to organizations/enrich,
\* find_jobs to jobs/find, find_people to people/find.
C23_DeclaredPath ==
    call.op = "tools/call" /\ call.tool \in DeclaredTools /\ ~call.outcome.threw
    => call.outcome.request.path.resource = DeclaredPath(call.tool)

\* C24: for find_organizations, find_jobs and find_people the body sent
\* upstream has `limit` 10 when limit is omitted and `offset` 0 when offset
\* is omitted, and a supplied limit or offset unchanged.
C24_LimitOffsetDefaults ==
    /\ call.op = "tools/call"
    /\ call.tool \in {"find_organizations", "find_jobs", "find_people"}
    /\ ~call.outcome.threw
    => /\ Sent(call.outcome.request.body, "limit")
            = (IF call.args.limit = Undefined THEN Num(10) ELSE call.args.limit)
       /\ Sent(call.outcome.request.body, "offset")
            = (IF call.args.offset = Undefined THEN Num(0) ELSE call.args.offset)


\* C25: a process started without the API credential exits with a nonzero
\* status before anything is started: it never listens, registers no
\* session, accepts no submission and makes no upstream request.
C25_NoKeyNoStart ==
    KeyMissing(process.SUMBLE_API_KEY) =>
        /\ process.phase # "listening"
        /\ process.phase = "exited" => process.exitCode # 0
        /\ \A i \in Ids : clients[i] = 0
        /\ conns = << >>
        /\ subs = << >>
        /\ call = NoCall

\* A process started with an empty credential has exited with status 1.
C25_Witness ==
    /\ process.SUMBLE_API_KEY = ""
    /\ process.phase = "exited"
    /\ process.exitCode = 1

\* C26: OPTIONS on any path is answered 204, GET / and GET /health 200 with
\* status ok, every other method and path that is not a declared endpoint
\* 404; none of these requests changes the session table, a stream, a
\* submission or makes an upstream call.
DeclaredEndpoint(method, pathname) ==
    \/ method = "OPTIONS"
    \/ method = "GET" /\ pathname \in {"/", "/health", "/sse"}
    \/ method = "POST" /\ pathname = "/message"

C26_Routing ==
    [][\A method \in HttpMethods, pathname \in Pathnames :
          Route(method, pathname) =>
              /\ method = "OPTIONS" => reply'.status = 204
              /\ method = "GET" /\ pathname \in {"/", "/health"} =>
                     reply'.status = 200 /\ reply'.body = "status ok"
              /\ ~DeclaredEndpoint(method, pathname) => reply'.status = 404
              /\ UNCHANGED <<clients, conns, subs, ticks, call>>]_vars

\* The body of submission s was received in full: req.on("end") ran.
Received(s) == s \in SubIds /\ subs[s].endSeq # 0

\* The POST of submission s has its HTTP response.
Answered(s) == s \in SubIds /\ subs[s].pc = "done" /\ subs[s].status # 0

\* C27: every submission that passed the session check and whose body was
\* received in full is eventually answered, with one HTTP response that is
\* never replaced, provided its upstream call completes.
C27_EventuallyAnswered ==
    /\ \A s \in 1..MaxReq : Received(s) ~> Answered(s)
    /\ [][\A s \in SubIds : Answered(s) => subs'[s] = subs[s]]_vars

\* A tool call that waited for its upstream call has been answered while
\* another submission's upstream call is still pending.
C27_Witness ==
    \E s, u \in SubIds :
        /\ Answered(s)
        /\ subs[s].callStart # None
        /\ subs[u].pc = "upstream"

\* The identifiers that have an entry in the session table.
TableKeys == {i \in Ids : clients[i] # 0}

\* C28: the session table holds exactly the streams that were opened and
\* have not closed; a stream-open adds exactly one entry, a close removes
\* the entry of the closing stream and no other, and no other step changes
\* the table.
C28_TableMembership ==
    /\ [](\A c \in ConnIds : conns[c].open <=> clients[conns[c].id] = c)
    /\ [][/\ Len(conns') > Len(conns) =>
                 {i \in Ids : clients'[i] # 0} \ TableKeys # {}
          /\ \A c \in ConnIds :
                 conns[c].open /\ ~conns'[c].open =>
                     /\ clients[conns[c].id] = c
                     /\ clients' = [clients EXCEPT ![conns[c].id] = 0]
          /\ (Len(conns') = Len(conns)
                 /\ \A c \in ConnIds : conns'[c].open = conns[c].open) =>
                 clients' = clients]_vars

\* The identifier belongs to a session that has been closed.
ClosedSession(sessionId) ==
    \E c \in ConnIds : ~conns[c].open /\ conns[c].id = sessionId

\* C29: the identifier of a closed session never maps to a stream again,
\* and a submission that names it is rejected, whatever sessions were
\* opened since.
C29_ClosedIsTerminal ==
    /\ [](\A sessionId \in Ids : ClosedSession(sessionId) => clients[sessionId] = 0)
    /\ [][\A sessionId \in Ids :
             PostArrive(sessionId) /\ ClosedSession(sessionId) =>
                 subs'[Len(subs')].status = 400]_vars

\* C30: a keep-alive tick writes nothing but one comment frame, onto the
\* stream of the session that owns the timer and only while that session is
\* the one in the table; the table, the submissions and every other stream
\* stay as they were.
C30_KeepAliveFrame ==
    [][\A c \in ConnIds :
          KeepAlive(c) =>
              /\ clients' = clients
              /\ subs' = subs
              /\ \A d \in ConnIds \ {c} : conns'[d] = conns[d]
              /\ conns'[c].open = conns[c].open
              /\ \/ conns'[c].frames = conns[c].frames
                 \/ /\ conns'[c].frames = Append(conns[c].frames, KeepAliveFrame)
                    /\ clients[conns[c].id] = c]_vars

\* The upstream call of submission s is pending.
Pending(s) == s \in SubIds /\ subs[s].pc = "upstream"

\* C31: while the upstream call of a tools/call is pending, the server still
\* takes stream opens, closes, submissions and bodies of the other
\* sessions, and the call's completion, with success or failure, changes no
\* stream but that of the session the submission was accepted on, and no
\* entry of the table.
C31_Isolation ==
    /\ [](\A s \in 1..MaxReq :
             Pending(s) =>
                 /\ \A c \in ConnIds : conns[c].open => ENABLED SseClose(c)
                 /\ \A u \in SubIds :
                        subs[u].pc = "body" => ENABLED (\E m \in Bodies : PostEnd(u, m))
                 /\ Len(conns) + Len(subs) < MaxReq =>
                        /\ \A clientId \in Ids :
                               ENABLED (\E h \in ProxiedHeaders : SseOpen(h, clientId))
                        /\ \A sessionId \in Ids : ENABLED PostArrive(sessionId))
    /\ [][\A s \in SubIds :
             Pending(s) /\ ~Pending(s)' =>
                 /\ clients' = clients
                 /\ \A d \in ConnIds \ {subs[s].accepted} : conns'[d] = conns[d]
                 /\ \A u \in SubIds \ {s} : subs'[u] = subs[u]]_vars


\* C32: a submission that passed the session check, carries a
\* response-bearing method and has been answered, on a session whose stream
\* is still open, has exactly one message frame; the frame stands on that
\* session's stream and its envelope has the id of the request.
C32_ExactlyOneFrame ==
    \A s \in SubIds :
        /\ subs[s].pc = "done"
        /\ subs[s].accepted # 0
        /\ ResponseBearing(s)
        /\ conns[subs[s].accepted].open
        => \E i \in MessagePositions(subs[s].accepted) :
               /\ FramesFrom(s) = {<<subs[s].accepted, i>>}
               /\ conns[subs[s].accepted].frames[i].data.id = subs[s].id

\* inputSchema: minimum and maximum of `limit` and of `offset`.
LimitMinimum == 1
OffsetMinimum == 0
OffsetMaximum == 10000

LimitMaximum(toolName) ==
    CASE toolName = "find_organizations" -> 200
      [] toolName = "find_jobs" -> 100
      [] toolName = "find_people" -> 250

\* C33: the limit and the offset the stdio server sends upstream lie within
\* the bounds of the tool's schema, whatever integers the caller supplied.
C33_WithinSchemaBounds ==
    /\ variant = "part_001"
    /\ call.op = "tools/call"
    /\ call.tool \in {"find_organizations", "find_jobs", "find_people"}
    /\ ~call.outcome.threw
    /\ call.args.limit.kind \in {"undefined", "number"}
    /\ call.args.offset.kind \in {"undefined", "number"}
    => /\ Sent(call.outcome.request.body, "limit").kind = "number"
       /\ Sent(call.outcome.request.body, "limit").n >= LimitMinimum
       /\ Sent(call.outcome.request.body, "limit").n <= LimitMaximum(call.tool)
       /\ Sent(call.outcome.request.body, "offset").kind = "number"
       /\ Sent(call.outcome.request.body, "offset").n >= OffsetMinimum
       /\ Sent(call.outcome.request.body, "offset").n <= OffsetMaximum

\* C34: for enrich_organization, find_jobs and find_people the stdio server
\* sends an `organization` with one identifying key, `domain` if domain was
\* supplied, otherwise `id` if organization_id was, otherwise `slug`; for
\* find_jobs with none of them the body has no `organization`.
C34_OrganizationPrecedence ==
    /\ variant = "part_001"
    /\ call.op = "tools/call"
    /\ call.tool \in {"enrich_organization", "find_jobs", "find_people"}
    => LET args == call.args
           organization == call.outcome.request.body.organization
       IN  IF args.domain # Undefined
           THEN /\ ~call.outcome.threw
                /\ organization = Organization(args.domain, Undefined, Undefined)
           ELSE IF args.organization_id # Undefined
           THEN /\ ~call.outcome.threw
                /\ organization = Organization(Undefined, args.organization_id, Undefined)
           ELSE IF args.slug # Undefined
           THEN /\ ~call.outcome.threw
                /\ organization = Organization(Undefined, Undefined, args.slug)
           ELSE call.tool = "find_jobs" =>
                    ~call.outcome.threw /\ organization = NoOrganization

\* TOOLS: the filter properties of each tool's inputSchema.
FilterArguments(toolName) ==
    CASE toolName \in {"find_organizations", "enrich_organization"} ->
           {"technologies", "technology_categories", "query", "since"}
      [] toolName = "find_jobs" ->
           {"technologies", "technology_categories", "countries", "query", "since"}
      [] toolName = "find_people" ->
           {"job_functions", "job_levels", "countries", "query", "since"}

\* C35: every body the stdio server sends has a `filters` object; it holds
\* exactly the tool's filter arguments that were supplied with a truthy
\* value, and when there is none it is {technologies: []}, or {} for
\* find_people.
C35_FiltersContents ==
    /\ variant = "part_001"
    /\ call.op = "tools/call"
    /\ call.tool \in DeclaredTools
    /\ ~call.outcome.threw
    => LET filters == call.outcome.request.body.filters
           supplied == {k \in FilterArguments(call.tool) : Truthy(call.args[k])}
       IN  /\ filters.present
           /\ supplied # {} =>
                  \A k \in FilterKeys :
                      filters.members[k] = IF k \in supplied THEN call.args[k] ELSE Undefined
           /\ supplied = {} =>
                  filters.members = IF call.tool = "find_people"
                                    THEN EmptyFilters
                                    ELSE TechnologiesEmpty

\* find_jobs on the stdio server with an empty query and a country: the
\* filters are the countries alone.
C35_Witness ==
    /\ variant = "part_001"
    /\ call.op = "tools/call"
    /\ call.tool = "find_jobs"
    /\ call.args.query = Str("")
    /\ Truthy(call.args.countries)
    /\ ~call.outcome.threw
    /\ SentFilter(call.outcome.request.body, "countries") = call.args.countries
    /\ SentFilter(call.outcome.request.body, "query") = Undefined

\* C36: the identifier generated for a stream is not empty, and while the
\* stream is open the identifier advertised in its endpoint event passes the
\* session check.
C36_AdvertisedIdAccepted ==
    \A c \in ConnIds :
        /\ conns[c].id # ""
        /\ conns[c].open => SessionCheck(conns[c].frames[1].data.sessionId)
====
